---- MODULE Spec2Model ----
(***************************************************************************)
(* State-machine model of the S3 file manager: the service functions of    *)
(* app/s3_service.py, the routes of app/main.py that call them, and the    *)
(* object-storage provider calls they make.                                *)
(*                                                                         *)
(* Strings (keys, prefixes, paths) are sequences of one-character strings, *)
(* so that split/strip/startswith/concatenation are computed, not assumed. *)
(***************************************************************************)
EXTENDS Naturals, Sequences, FiniteSets

VARIABLES
    exists,     \* the set of buckets that exist at the provider
    store,      \* store[b][k]: body of the object at key k of bucket b, or NoObject
    last,       \* the last completed request: its arguments and what its caller got
    inflight    \* inflight[p]: the move request process p is in the middle of

vars == <<exists, store, last, inflight>>

----------------------------------------------------------------------------
(* Bounds of the model *)

MaxKeyLen == 3      \* keys and prefixes have at most this many characters
MaxObjects == 3     \* objects held by the provider, all buckets together
MaxMoveObjects == 2 \* the same, where a behaviour moves objects
PageSize == 2       \* entries per listing page (the provider's MaxKeys, scaled down)

Chars == {"/", "a"}
Buckets == {"b1", "b2"}
Procs == {1, 2}

SLASH == "/"
NoObject == "<absent>"
EmptyBody == ""                     \* the zero-byte body
Bodies == {EmptyBody, "data"}

StringsOfLen(n) == [1..n -> Chars]
Keys == UNION {StringsOfLen(n) : n \in 1..MaxKeyLen}
Prefixes == {<< >>} \cup Keys

----------------------------------------------------------------------------
(* Python string operations, on sequences of characters *)

EndsWithSlash(s) == Len(s) > 0 /\ s[Len(s)] = SLASH

StartsWith(s, p) == Len(p) <= Len(s) /\ SubSeq(s, 1, Len(p)) = p

HasSlash(s) == \E i \in 1..Len(s) : s[i] = SLASH

FirstSlash(s) == CHOOSE i \in 1..Len(s) : s[i] = SLASH /\ \A j \in 1..(i-1) : s[j] # SLASH

RECURSIVE LStrip(_)
LStrip(s) == IF Len(s) > 0 /\ s[1] = SLASH THEN LStrip(Tail(s)) ELSE s

RECURSIVE RStrip(_)
RStrip(s) == IF EndsWithSlash(s) THEN RStrip(SubSeq(s, 1, Len(s) - 1)) ELSE s

Strip(s) == RStrip(LStrip(s))

\* str.split("/"): always at least one element; empty strings are kept
RECURSIVE Split(_)
Split(s) ==
    IF ~HasSlash(s) THEN <<s>>
    ELSE LET i == FirstSlash(s)
         IN  <<SubSeq(s, 1, i - 1)>> \o Split(SubSeq(s, i + 1, Len(s)))

\* "/".join(parts)
RECURSIVE Join(_)
Join(parts) ==
    IF Len(parts) = 0 THEN << >>
    ELSE IF Len(parts) = 1 THEN parts[1]
    ELSE parts[1] \o <<SLASH>> \o Join(Tail(parts))

ButLast(q) == SubSeq(q, 1, Len(q) - 1)      \* q[:-1]

LastOf(q) == q[Len(q)]                      \* q[-1]

----------------------------------------------------------------------------
(* The provider's key order: byte-wise lexicographic, "/" (0x2F) before "a" *)

CharLess(c, d) == c = SLASH /\ d # SLASH

RECURSIVE LexLess(_, _)
LexLess(s, t) ==
    IF Len(t) = 0 THEN FALSE
    ELSE IF Len(s) = 0 THEN TRUE
    ELSE IF s[1] = t[1] THEN LexLess(Tail(s), Tail(t))
    ELSE CharLess(s[1], t[1])

RECURSIVE SortedSeq(_)
SortedSeq(S) ==
    IF S = {} THEN << >>
    ELSE LET m == CHOOSE x \in S : \A y \in S \ {x} : LexLess(x, y)
         IN  <<m>> \o SortedSeq(S \ {m})

Take(q, n) == SubSeq(q, 1, IF Len(q) < n THEN Len(q) ELSE n)

SeqToSet(q) == {q[i] : i \in 1..Len(q)}

----------------------------------------------------------------------------
(* The provider (boto3 client `s3`): the calls the service makes, on the    *)
(* provider state (ex = existing buckets, st = objects).  A call fails with *)
(* ClientError when the provider rejects it, or when `fault` says that this *)
(* call hits a transient error.                                             *)

EmptyBucket == [k \in Keys |-> NoObject]

KeysOf(st, b) == {k \in Keys : st[b][k] # NoObject}

ObjectCount(st) == Cardinality({bk \in Buckets \X Keys : st[bk[1]][bk[2]] # NoObject})

\* The listing entry a key shows up as: with Delimiter="/", a key with a "/"
\* after the prefix is rolled up into the common prefix that ends at that "/".
IsRolledUp(k, prefix, delimited) ==
    delimited /\ HasSlash(SubSeq(k, Len(prefix) + 1, Len(k)))

RollUp(k, prefix, delimited) ==
    LET rest == SubSeq(k, Len(prefix) + 1, Len(k))
    IN  IF IsRolledUp(k, prefix, delimited)
        THEN prefix \o SubSeq(rest, 1, FirstSlash(rest))
        ELSE k

\* s3.list_objects_v2(Bucket, Prefix[, Delimiter][, ContinuationToken]): one
\* page of at most PageSize entries, in key order, after the entry `after`.
ListObjectsV2(ex, st, b, prefix, delimited, after) ==
    LET matching == {k \in KeysOf(st, b) : StartsWith(k, prefix)}
        entries  == {e \in {RollUp(k, prefix, delimited) : k \in matching} :
                        LexLess(after, e)}
        sorted   == SortedSeq(entries)
        page     == Take(sorted, PageSize)
        IsKey(e) == e \in matching /\ ~IsRolledUp(e, prefix, delimited)
        IsCommonPrefix(e) == ~IsKey(e)
    IN  [ok             |-> b \in ex,
         Contents       |-> SelectSeq(page, IsKey),
         CommonPrefixes |-> SelectSeq(page, IsCommonPrefix),
         IsTruncated    |-> Len(sorted) > PageSize,
         NextToken      |-> IF Len(page) = 0 THEN after ELSE page[Len(page)]]

\* s3.put_object / s3.upload_fileobj
PutObjectOk(ex, b) == b \in ex

PutObject(st, b, k, body) == [st EXCEPT ![b][k] = body]

\* s3.delete_object: deleting a key that does not exist succeeds
DeleteObjectOk(ex, b) == b \in ex

DeleteObject(st, b, k) == [st EXCEPT ![b][k] = NoObject]

\* s3.delete_objects: the batch of one listing page
RECURSIVE DeleteObjects(_, _, _)
DeleteObjects(st, b, keys) ==
    IF Len(keys) = 0 THEN st
    ELSE DeleteObjects(DeleteObject(st, b, keys[1]), b, Tail(keys))

\* s3.copy_object: NoSuchBucket / NoSuchKey when the source is missing, and
\* InvalidRequest for a copy of an object onto itself (the call passes no
\* metadata, storage-class or encryption change).
CopyObjectOk(ex, st, sb, sk, db, dk) ==
    /\ sb \in ex
    /\ db \in ex
    /\ st[sb][sk] # NoObject
    /\ ~(sb = db /\ sk = dk)

CopyObject(st, sb, sk, db, dk) == [st EXCEPT ![db][dk] = st[sb][sk]]

\* s3.create_bucket: the name must be free
CreateBucketOk(ex, b) == b \notin ex

\* s3.delete_bucket: the bucket must exist and be empty
DeleteBucketOk(ex, st, b) == b \in ex /\ KeysOf(st, b) = {}

----------------------------------------------------------------------------
(* app/s3_service.py.  Each function is an operator from the provider      *)
(* state and the arguments to [ex, st, ret, errors, calls]: the provider   *)
(* state afterwards, what the function returns ("Raised": an exception     *)
(* leaves it), the provider calls that failed and how many were made.      *)
(* fault = n > 0 makes the n-th provider call of the function fail.        *)

Outcome(ex, st, ret, errors, calls) ==
    [ex |-> ex, st |-> st, ret |-> ret, errors |-> errors, calls |-> calls]

NoListing == [folders |-> << >>, files |-> << >>]

list_buckets(ex, st, fault) ==
    IF fault = 1
    THEN Outcome(ex, st, "Raised", {"list_buckets"}, 1)
    ELSE Outcome(ex, st, ex, {}, 1)

\* list_objects without the `obj["Key"] != prefix` test
list_objects_unfiltered(ex, st, bucket_name, prefix, fault) ==
    LET response == ListObjectsV2(ex, st, bucket_name, prefix, TRUE, << >>)
    IN  IF fault = 1 \/ ~response.ok
        THEN Outcome(ex, st, NoListing, {"list_objects_v2"}, 1)
        ELSE Outcome(ex, st,
                     [folders |-> response.CommonPrefixes,
                      files   |-> response.Contents],
                     {}, 1)

list_objects(ex, st, bucket_name, prefix, fault) ==
    LET response == ListObjectsV2(ex, st, bucket_name, prefix, TRUE, << >>)
        NotPrefix(k) == k # prefix
    IN  IF fault = 1 \/ ~response.ok
        THEN Outcome(ex, st, NoListing, {"list_objects_v2"}, 1)
        ELSE Outcome(ex, st,
                     [folders |-> response.CommonPrefixes,
                      files   |-> SelectSeq(response.Contents, NotPrefix)],
                     {}, 1)

create_bucket(ex, st, bucket_name, fault) ==
    IF fault = 1 \/ ~CreateBucketOk(ex, bucket_name)
    THEN Outcome(ex, st, "False", {"create_bucket"}, 1)
    ELSE Outcome(ex \cup {bucket_name}, st, "True", {}, 1)

\* Step 2 of delete_bucket: delete_object for each listed key in turn; the call
\* numbered `fault` fails and ends the loop.  callNo numbers keys[1]'s call.
RECURSIVE DeleteEach(_, _, _, _, _)
DeleteEach(st, b, keys, callNo, fault) ==
    IF Len(keys) = 0 THEN [st |-> st, failed |-> FALSE, calls |-> callNo - 1]
    ELSE IF fault = callNo THEN [st |-> st, failed |-> TRUE, calls |-> callNo]
    ELSE DeleteEach(DeleteObject(st, b, keys[1]), b, Tail(keys), callNo + 1, fault)

delete_bucket(ex, st, bucket_name, fault) ==
    LET response == ListObjectsV2(ex, st, bucket_name, << >>, FALSE, << >>)
        emptied  == DeleteEach(st, bucket_name, response.Contents, 2, fault)
        n        == emptied.calls + 1
    IN  IF fault = 1 \/ ~response.ok
        THEN Outcome(ex, st, "False", {"list_objects_v2"}, 1)
        ELSE IF emptied.failed
        THEN Outcome(ex, emptied.st, "False", {"delete_object"}, emptied.calls)
        ELSE IF fault = n \/ ~DeleteBucketOk(ex, emptied.st, bucket_name)
        THEN Outcome(ex, emptied.st, "False", {"delete_bucket"}, n)
        ELSE Outcome(ex \ {bucket_name}, emptied.st, "True", {}, n)

upload_file(ex, st, bucket_name, file_obj, key, fault) ==
    IF fault = 1 \/ ~PutObjectOk(ex, bucket_name)
    THEN Outcome(ex, st, "False", {"upload_fileobj"}, 1)
    ELSE Outcome(ex, PutObject(st, bucket_name, key, file_obj), "True", {}, 1)

\* delete_file that reports a key that does not exist as a failure
delete_file_strict(ex, st, bucket_name, key, fault) ==
    IF fault = 1 \/ ~DeleteObjectOk(ex, bucket_name) \/ st[bucket_name][key] = NoObject
    THEN Outcome(ex, st, "False", {"delete_object"}, 1)
    ELSE Outcome(ex, DeleteObject(st, bucket_name, key), "True", {}, 1)

delete_file(ex, st, bucket_name, key, fault) ==
    IF fault = 1 \/ ~DeleteObjectOk(ex, bucket_name)
    THEN Outcome(ex, st, "False", {"delete_object"}, 1)
    ELSE Outcome(ex, DeleteObject(st, bucket_name, key), "True", {}, 1)

\* if not folder_path.endswith("/"): folder_path += "/"
FolderKey(folder_path) ==
    IF EndsWithSlash(folder_path) THEN folder_path ELSE folder_path \o <<SLASH>>

create_folder(ex, st, bucket_name, folder_path, fault) ==
    IF fault = 1 \/ ~PutObjectOk(ex, bucket_name)
    THEN Outcome(ex, st, "False", {"put_object"}, 1)
    ELSE Outcome(ex, PutObject(st, bucket_name, FolderKey(folder_path), EmptyBody),
                 "True", {}, 1)

\* An empty Key fails boto3's parameter validation: ParamValidationError is
\* no ClientError, so it leaves copy_file (and move_file) as an exception.
copy_file(ex, st, src_bucket, src_key, dest_bucket, dest_key, fault) ==
    IF Len(dest_key) = 0
    THEN Outcome(ex, st, "Raised", {}, 0)
    ELSE IF fault = 1 \/ ~CopyObjectOk(ex, st, src_bucket, src_key, dest_bucket, dest_key)
    THEN Outcome(ex, st, "False", {"copy_object"}, 1)
    ELSE Outcome(ex, CopyObject(st, src_bucket, src_key, dest_bucket, dest_key),
                 "True", {}, 1)

\* move_file without its delete_file call
move_file_copy_only(ex, st, src_bucket, src_key, dest_bucket, dest_key, fault) ==
    LET copied == copy_file(ex, st, src_bucket, src_key, dest_bucket, dest_key,
                            IF fault = 1 THEN 1 ELSE 0)
    IN  IF copied.ret = "Raised"
        THEN copied
        ELSE Outcome(copied.ex, copied.st, "True", copied.errors, copied.calls)

\* copy_file and delete_file catch ClientError themselves and return False;
\* move_file ignores what they return, so its own except clause never runs.
move_file(ex, st, src_bucket, src_key, dest_bucket, dest_key, fault) ==
    LET copied  == copy_file(ex, st, src_bucket, src_key, dest_bucket, dest_key,
                             IF fault = 1 THEN 1 ELSE 0)
        deleted == delete_file(copied.ex, copied.st, src_bucket, src_key,
                               IF fault = 2 THEN 1 ELSE 0)
    IN  IF copied.ret = "Raised"
        THEN copied
        ELSE Outcome(deleted.ex, deleted.st, "True",
                     copied.errors \cup deleted.errors, copied.calls + deleted.calls)

\* The loop of delete_folder when only the first page of the listing is read
RECURSIVE DeleteFirstPage(_, _, _, _, _, _, _)
DeleteFirstPage(ex, st, b, folder_prefix, after, callNo, fault) ==
    LET page == ListObjectsV2(ex, st, b, folder_prefix, FALSE, after)
    IN  IF fault = callNo \/ ~page.ok
        THEN Outcome(ex, st, "Raised", {"list_objects_v2"}, callNo)
        ELSE IF Len(page.Contents) = 0
        THEN Outcome(ex, st, "None", {}, callNo)
        ELSE IF fault = callNo + 1
        THEN Outcome(ex, st, "Raised", {"delete_objects"}, callNo + 1)
        ELSE Outcome(ex, DeleteObjects(st, b, page.Contents), "None", {}, callNo + 1)

\* The paginator's loop: list a page (call callNo), delete its keys in one
\* delete_objects batch (call callNo + 1), go on after the page's last key
\* while the listing is truncated.  Nothing catches a ClientError here.
RECURSIVE DeletePages(_, _, _, _, _, _, _)
DeletePages(ex, st, b, folder_prefix, after, callNo, fault) ==
    LET page == ListObjectsV2(ex, st, b, folder_prefix, FALSE, after)
    IN  IF fault = callNo \/ ~page.ok
        THEN Outcome(ex, st, "Raised", {"list_objects_v2"}, callNo)
        ELSE IF Len(page.Contents) = 0
        THEN Outcome(ex, st, "None", {}, callNo)
        ELSE IF fault = callNo + 1
        THEN Outcome(ex, st, "Raised", {"delete_objects"}, callNo + 1)
        ELSE LET st2 == DeleteObjects(st, b, page.Contents)
             IN  IF page.IsTruncated
                 THEN DeletePages(ex, st2, b, folder_prefix, page.NextToken,
                                  callNo + 2, fault)
                 ELSE Outcome(ex, st2, "None", {}, callNo + 1)

\* delete_folder with the prefix left out of the listing call
delete_folder_whole_bucket(ex, st, bucket_name, folder_prefix, fault) ==
    DeletePages(ex, st, bucket_name, << >>, << >>, 1, fault)

delete_folder(ex, st, bucket_name, folder_prefix, fault) ==
    DeletePages(ex, st, bucket_name, folder_prefix, << >>, 1, fault)

----------------------------------------------------------------------------
(* app/main.py: the routes.  Each action is one request, start to finish;  *)
(* `last` keeps its arguments, what the service returned to the route      *)
(* (ret, errors), the route's HTTP status and, for a page, the template    *)
(* context.                                                                *)

NoContext ==
    [buckets |-> {}, current_path |-> << >>, breadcrumbs |-> << >>, folders |-> << >>,
     files |-> << >>, parent_path |-> << >>]

Request(op, bucket, key, path, dest, fault, out, status, ctx) ==
    [op |-> op, bucket |-> bucket, key |-> key, path |-> path, dest |-> dest,
     fault |-> fault,
     ret |-> out.ret, errors |-> out.errors, calls |-> out.calls, status |-> status, ctx |-> ctx]

NoRequest ==
    [op |-> "none", bucket |-> "none", key |-> << >>, path |-> << >>, dest |-> << >>,
     fault |-> 0,
     ret |-> "None", errors |-> {}, calls |-> 0, status |-> "none", ctx |-> NoContext]

\* a ClientError is caught in the service; any other exception is a 500
Redirect(out) == IF out.ret = "Raised" THEN "500" ELSE "303"

\* breadcrumbs = prefix.strip("/").split("/") if prefix else []
Breadcrumbs(prefix) == IF Len(prefix) > 0 THEN Split(Strip(prefix)) ELSE << >>

\* parent_path = "/".join(prefix.rstrip("/").split("/")[:-1]); "/" appended if non-empty
ParentPath(prefix) ==
    LET parent_path == Join(ButLast(Split(RStrip(prefix))))
    IN  IF Len(parent_path) > 0 THEN parent_path \o <<SLASH>> ELSE parent_path

\* file_name = source_key.split("/")[-1]; destination_key = destination_path + file_name
DestinationKey(source_key, destination_path) ==
    destination_path \o LastOf(Split(source_key))

Apply(out) == exists' = out.ex /\ store' = out.st

\* A behaviour serves one request (or one pair of racing moves): the initial
\* state is any provider state, so this is any request at any time.
Ready == last.op = "none" /\ \A p \in Procs : inflight[p].step = "idle"

Fits(st) == ObjectCount(st) <= MaxObjects

\* list_buckets catches nothing: a failed call is the route's 500
Home(fault) ==
    LET out    == list_buckets(exists, store, fault)
        raised == out.errors # {}
        ctx    == [NoContext EXCEPT !.buckets = IF raised THEN {} ELSE out.ret]
    IN  /\ last' = Request("home", "none", << >>, << >>, << >>, fault,
                           [ret    |-> IF raised THEN "Raised" ELSE "Buckets",
                            errors |-> out.errors, calls |-> out.calls],
                           IF raised THEN "500" ELSE "200", ctx)
        /\ UNCHANGED <<exists, store, inflight>>

ViewBucket(bucket_name, prefix, fault) ==
    LET out == list_objects(exists, store, bucket_name, prefix, fault)
        ctx == [buckets      |-> {},
                current_path |-> prefix,
                breadcrumbs  |-> Breadcrumbs(prefix),
                folders      |-> out.ret.folders,
                files        |-> out.ret.files,
                parent_path  |-> ParentPath(prefix)]
    IN  /\ last' = Request("view_bucket", bucket_name, prefix, << >>, << >>, fault,
                           [ret |-> "Listing", errors |-> out.errors, calls |-> out.calls], "200", ctx)
        /\ UNCHANGED <<exists, store, inflight>>

CreateBucket(bucket_name, fault) ==
    LET out == create_bucket(exists, store, bucket_name, fault)
    IN  /\ Apply(out)
        /\ last' = Request("create_bucket", bucket_name, << >>, << >>, << >>, fault, out,
                           Redirect(out), NoContext)
        /\ UNCHANGED inflight

DeleteBucket(bucket_name, fault) ==
    LET out == delete_bucket(exists, store, bucket_name, fault)
    IN  /\ fault <= out.calls
        /\ Apply(out)
        /\ last' = Request("delete_bucket", bucket_name, << >>, << >>, << >>, fault, out,
                           Redirect(out), NoContext)
        /\ UNCHANGED inflight

\* key = prefix + file.filename
UploadFile(bucket_name, prefix, filename, body, fault) ==
    LET key == prefix \o filename
        out == upload_file(exists, store, bucket_name, body, key, fault)
    IN  /\ key \in Keys
        /\ Fits(out.st)
        /\ Apply(out)
        /\ last' = Request("upload_file", bucket_name, prefix, filename, key, fault, out,
                           Redirect(out), NoContext)
        /\ UNCHANGED inflight

\* folder_path = prefix + folder_name.strip("/") + "/"
CreateFolder(bucket_name, prefix, folder_name, fault) ==
    LET folder_path == prefix \o Strip(folder_name) \o <<SLASH>>
        out == create_folder(exists, store, bucket_name, folder_path, fault)
    IN  /\ folder_path \in Keys
        /\ Fits(out.st)
        /\ Apply(out)
        /\ last' = Request("create_folder", bucket_name, prefix, folder_name,
                           folder_path, fault, out, Redirect(out), NoContext)
        /\ UNCHANGED inflight

\* s3_service.create_folder called with a folder path as its caller wrote it
CreateFolderCall(bucket_name, folder_path, fault) ==
    LET out == create_folder(exists, store, bucket_name, folder_path, fault)
    IN  /\ FolderKey(folder_path) \in Keys
        /\ Fits(out.st)
        /\ Apply(out)
        /\ last' = Request("create_folder_call", bucket_name, folder_path, << >>,
                           << >>, fault, out, Redirect(out), NoContext)
        /\ UNCHANGED inflight

DeleteFile(bucket_name, key, fault) ==
    LET out == delete_file(exists, store, bucket_name, key, fault)
    IN  /\ Apply(out)
        /\ last' = Request("delete_file", bucket_name, key, << >>, << >>, fault, out,
                           Redirect(out), NoContext)
        /\ UNCHANGED inflight

DeleteFolder(bucket_name, folder_prefix, fault) ==
    LET out == delete_folder(exists, store, bucket_name, folder_prefix, fault)
    IN  /\ fault <= out.calls
        /\ Apply(out)
        /\ last' = Request("delete_folder", bucket_name, folder_prefix, << >>, << >>, fault,
                           out,
                           Redirect(out), NoContext)
        /\ UNCHANGED inflight

CopyFile(bucket_name, source_key, destination_path, fault) ==
    LET destination_key == DestinationKey(source_key, destination_path)
        out == copy_file(exists, store, bucket_name, source_key,
                         bucket_name, destination_key, fault)
    IN  /\ Len(destination_key) <= MaxKeyLen
        /\ Fits(out.st)
        /\ Apply(out)
        /\ last' = Request("copy_file", bucket_name, source_key, destination_path,
                           destination_key, fault, out,
                           Redirect(out), NoContext)
        /\ UNCHANGED inflight

MoveFile(bucket_name, source_key, destination_path, fault) ==
    LET destination_key == DestinationKey(source_key, destination_path)
        out == move_file(exists, store, bucket_name, source_key,
                         bucket_name, destination_key, fault)
    IN  /\ Len(destination_key) <= MaxKeyLen
        /\ Fits(out.st)
        /\ Apply(out)
        /\ last' = Request("move_file", bucket_name, source_key, destination_path,
                           destination_key, fault, out,
                           Redirect(out), NoContext)
        /\ UNCHANGED inflight

----------------------------------------------------------------------------
(* Two requests in flight.  The server runs each request on its own thread *)
(* and nothing locks a key, so the provider calls of two moves interleave: *)
(* a move is its copy_file call, then its delete_file call.                *)

Moving(step, bucket, src, path, dst, body, errors) ==
    [step |-> step, bucket |-> bucket, src |-> src, path |-> path, dst |-> dst,
     body |-> body, errors |-> errors]

\* move_file up to and including copy_file(...), in process p
MoveCopyStep(p, bucket_name, source_key, destination_path, fault) ==
    LET destination_key == DestinationKey(source_key, destination_path)
        out == copy_file(exists, store, bucket_name, source_key,
                         bucket_name, destination_key, fault)
    IN  /\ inflight[p].step = "idle"
        /\ destination_key \in Keys
        /\ Fits(out.st)
        /\ Apply(out)
        /\ inflight' = [inflight EXCEPT ![p] =
              Moving("copied", bucket_name, source_key, destination_path, destination_key,
                     store[bucket_name][source_key], out.errors)]
        /\ UNCHANGED last

\* the rest of move_file in process p: delete_file(...), return True, redirect
MoveDeleteStep(p, fault) ==
    LET m   == inflight[p]
        out == delete_file(exists, store, m.bucket, m.src, fault)
        all == [ret |-> "True", errors |-> m.errors \cup out.errors, calls |-> 2]
    IN  /\ m.step = "copied"
        /\ Apply(out)
        /\ inflight' = [inflight EXCEPT ![p] =
              Moving("done", m.bucket, m.src, m.path, m.dst, m.body, all.errors)]
        /\ last' = Request("move_file", m.bucket, m.src, m.path, m.dst, fault, all,
                           Redirect(all), NoContext)

----------------------------------------------------------------------------
(* Initial states.  The application keeps no state of its own: it starts   *)
(* on whatever the provider holds.  Here that is any state of at most n    *)
(* objects, all in buckets that exist, in which the keys ending in "/" are *)
(* zero-byte folder markers and the other keys are files with data.        *)

EmptyStore == [b \in Buckets |-> EmptyBucket]

InitialBody(k) == IF EndsWithSlash(k) THEN EmptyBody ELSE "data"

RECURSIVE StoresUpTo(_)
StoresUpTo(n) ==
    IF n = 0 THEN {EmptyStore}
    ELSE LET smaller == StoresUpTo(n - 1)
         IN  smaller \cup
             {PutObject(st, b, k, InitialBody(k)) :
                 st \in smaller, b \in Buckets, k \in Keys}

NoMoves == [p \in Procs |-> Moving("idle", "none", << >>, << >>, << >>, NoObject, {})]

InitWith(n) ==
    /\ exists \in SUBSET Buckets
    /\ store \in {st \in StoresUpTo(n) :
                     \A b \in Buckets \ exists : KeysOf(st, b) = {}}
    /\ last = NoRequest
    /\ inflight = NoMoves

Init == InitWith(MaxObjects)

\* the provider states the move specifications start on
InitMove == InitWith(MaxMoveObjects)

Faults1 == {0, 1}
Faults2 == {0, 1, 2}
Names == {k \in Keys : ~HasSlash(k)}    \* file and folder names as a browser sends them

ListBuckets ==
    /\ Ready
    /\ \E f \in Faults1 : Home(f)

Browse ==
    /\ Ready
    /\ \E b \in Buckets, prefix \in Prefixes, f \in Faults1 : ViewBucket(b, prefix, f)

MakeBucket ==
    /\ Ready
    /\ \E b \in Buckets, f \in Faults1 : CreateBucket(b, f)

DropBucket ==
    /\ Ready
    /\ \E b \in Buckets, f \in 0..(MaxObjects + 2) : DeleteBucket(b, f)

Upload ==
    /\ Ready
    /\ \E b \in Buckets, prefix \in Prefixes, name \in Names, body \in Bodies, f \in Faults1 :
        UploadFile(b, prefix, name, body, f)

MakeFolder ==
    /\ Ready
    /\ \E b \in Buckets, prefix \in Prefixes, name \in Keys, f \in Faults1 :
        CreateFolder(b, prefix, name, f)

MakeFolderCall ==
    /\ Ready
    /\ \E b \in Buckets, path \in Prefixes, f \in Faults1 : CreateFolderCall(b, path, f)

DropFile ==
    /\ Ready
    /\ \E b \in Buckets, k \in Keys, f \in Faults1 : DeleteFile(b, k, f)

DropFolder ==
    /\ Ready
    /\ \E b \in Buckets, prefix \in Prefixes, f \in 0..(2 * MaxObjects + 1) :
        DeleteFolder(b, prefix, f)

Copy ==
    /\ Ready
    /\ \E b \in Buckets, k \in Keys, path \in Prefixes, f \in Faults1 : CopyFile(b, k, path, f)

Move ==
    /\ Ready
    /\ \E b \in Buckets, k \in Keys, path \in Prefixes, f \in Faults2 : MoveFile(b, k, path, f)

\* The two racing moves name the same object: the first names a key that
\* holds one, the second names the first one's bucket and key.  No provider
\* call hits a transient error.
SameSource(p, b, k) ==
    IF \A q \in Procs : inflight[q].step = "idle"
    THEN store[b][k] # NoObject
    ELSE \A q \in Procs \ {p} :
            inflight[q].step # "idle" => inflight[q].bucket = b /\ inflight[q].src = k

MoveCopy ==
    \E p \in Procs :
        /\ inflight[p].step = "idle"
        /\ \E b \in Buckets, k \in Keys :
              /\ SameSource(p, b, k)
              /\ \E path \in Prefixes : MoveCopyStep(p, b, k, path, 0)

MoveDelete == \E p \in Procs : MoveDeleteStep(p, 0)

Next ==
    \/ ListBuckets
    \/ Browse
    \/ MakeBucket
    \/ DropBucket
    \/ Upload
    \/ MakeFolder
    \/ MakeFolderCall
    \/ DropFile
    \/ DropFolder
    \/ Copy
    \/ Move

Spec == Init /\ [][Next]_vars

\* one page view
SpecView == Init /\ [][Browse]_vars

\* one call of create_folder
SpecFolders == Init /\ [][MakeFolderCall]_vars

\* one folder deletion
SpecDeleteFolder == Init /\ [][DropFolder]_vars

\* one bucket deletion
SpecDeleteBucket == Init /\ [][DropBucket]_vars

\* one move
SpecMove == InitMove /\ [][Move]_vars

\* two moves of one source key, their provider calls interleaved
NextRace == MoveCopy \/ MoveDelete

SpecRace == InitMove /\ [][NextRace]_vars

----------------------------------------------------------------------------
(* Properties *)

Viewed == last.op = "view_bucket"

Succeeded == last.errors = {} /\ last.ret # "Raised"

\* The bucket of the example: a folder marker, a file in that folder and a
\* file of another folder ("docs/", "docs/readme.txt", "images/logo.png").
DemoFolder == <<"a", SLASH>>
DemoFile == <<"a", SLASH, "a">>
DemoKeys == {DemoFolder, DemoFile, <<SLASH, "a">>}

\* C1: the files of a listing never contain a key equal to the listed prefix,
\* whatever the bucket holds and whatever the prefix is; the example bucket
\* listed at its folder gives no folders and the one file in the folder.
C1_FilesNeverContainPrefix ==
    Viewed =>
        /\ last.key \notin SeqToSet(last.ctx.files)
        /\ (/\ Succeeded
            /\ KeysOf(store, last.bucket) = DemoKeys
            /\ last.key = DemoFolder)
           => /\ last.ctx.folders = << >>
              /\ last.ctx.files = <<DemoFile>>

\* the example bucket listed at its folder: the marker exists, the file shows
C1_Witness ==
    /\ Viewed
    /\ Succeeded
    /\ KeysOf(store, last.bucket) = DemoKeys
    /\ last.key = DemoFolder
    /\ store[last.bucket][last.key] = EmptyBody
    /\ last.ctx.files = <<DemoFile>>

NonEmpty(segment) == Len(segment) > 0

NonEmptySegments(prefix) == SelectSeq(Split(prefix), NonEmpty)

ParentOfSegments(segments) ==
    LET joined == Join(ButLast(segments))
    IN  IF Len(joined) > 0 THEN joined \o <<SLASH>> ELSE << >>

\* C6: the breadcrumbs of a page are the non-empty "/"-separated segments of
\* its prefix, in order, and parent_path is those segments without the last,
\* joined by "/", with a "/" appended when that is non-empty.
C6_BreadcrumbsAreSegments ==
    Viewed =>
        /\ last.ctx.breadcrumbs = NonEmptySegments(last.key)
        /\ last.ctx.parent_path = ParentOfSegments(NonEmptySegments(last.key))

Moved == last.op = "move_file"

\* the part of a key after its last "/" (the whole key when it has none)
Basename(key) ==
    LET slashes == {i \in 1..Len(key) : key[i] = SLASH}
        from    == IF slashes = {} THEN 0
                   ELSE CHOOSE i \in slashes : \A j \in slashes : j <= i
    IN  SubSeq(key, from + 1, Len(key))

\* C2: a move of an object at key s to destination path d, whose copy and
\* delete calls both succeed, leaves the object at d + basename(s) and no
\* object at s.
C2_MoveRelocates ==
    [][(/\ last'.op = "move_file"
        /\ last'.errors = {}
        /\ last'.ret = "True"
        /\ store[last'.bucket][last'.key] # NoObject)
       => /\ store'[last'.bucket][last'.path \o Basename(last'.key)]
                = store[last'.bucket][last'.key]
          /\ store'[last'.bucket][last'.key] = NoObject]_vars

\* a completed move out of a folder: the object is at the new key
C2_Witness ==
    /\ Moved
    /\ last.errors = {}
    /\ last.ret = "True"
    /\ HasSlash(last.key)
    /\ store[last.bucket][last.dest] = "data"
    /\ store[last.bucket][last.key] = NoObject

\* C9: a move never destroys the only copy: after a move of an object at s
\* to the key d, the object's content is at s or at d, whether or not the
\* copy succeeded (here already when no call hits a transient error).
C9_MoveKeepsACopy ==
    [][(/\ last'.op = "move_file"
        /\ last'.fault = 0
        /\ store[last'.bucket][last'.key] # NoObject)
       => \/ store'[last'.bucket][last'.key] = store[last'.bucket][last'.key]
          \/ store'[last'.bucket][last'.dest] = store[last'.bucket][last'.key]]_vars

\* C4: a request in which a provider call failed is reported to its caller
\* differently from a success: a failed listing is not an empty folder, any
\* other failed operation does not return True.
C4_ErrorsSurfaced ==
    last.errors # {} =>
        IF Viewed
        THEN ~(last.ctx.folders = << >> /\ last.ctx.files = << >>)
        ELSE last.ret \in {"False", "Raised"}

DeletedFolder == last.op = "delete_folder"

Under(st, b, prefix) == {k \in KeysOf(st, b) : StartsWith(k, prefix)}

\* C3: without a provider error, delete_folder leaves no object whose key
\* starts with the prefix, however many pages the listing has; a second call
\* then succeeds and changes nothing.
C3_DeleteFolderEmptiesPrefix ==
    (DeletedFolder /\ last.errors = {}) =>
        /\ last.ret = "None"
        /\ Under(store, last.bucket, last.key) = {}
        /\ LET again == delete_folder(exists, store, last.bucket, last.key, 0)
           IN  /\ again.ret = "None"
               /\ again.errors = {}
               /\ again.st = store
               /\ Under(again.st, last.bucket, last.key) = {}

\* a deletion that took two listing pages and two batches
C3_Witness ==
    /\ DeletedFolder
    /\ last.errors = {}
    /\ last.calls >= 4
    /\ Len(last.key) > 0

\* C10 as stated: delete_folder keeps every object whose key does not start
\* with the prefix normalized to end in "/", and every object of the other
\* buckets.
C10_KeepsOutsideNormalizedFolder ==
    [][last'.op = "delete_folder" =>
          \A b \in Buckets, k \in Keys :
              (b # last'.bucket \/ ~StartsWith(k, FolderKey(last'.key)))
                  => store'[b][k] = store[b][k]]_vars

\* C10 amended: delete_folder keeps every object whose key does not start
\* with the prefix as given, and every object of the other buckets.
C10_KeepsOutsidePrefix ==
    [][last'.op = "delete_folder" =>
          \A b \in Buckets, k \in Keys :
              (b # last'.bucket \/ ~StartsWith(k, last'.key))
                  => store'[b][k] = store[b][k]]_vars

\* a deletion that removed a batch and left objects in both buckets
C10_Witness ==
    /\ DeletedFolder
    /\ last.errors = {}
    /\ last.calls >= 2
    /\ KeysOf(store, last.bucket) # {}
    /\ \E b \in Buckets \ {last.bucket} : KeysOf(store, b) # {}

\* C5: without a transient provider error, delete_bucket of a bucket that
\* exists reports success and the bucket is gone, whatever the bucket holds.
C5_DeleteBucketSucceeds ==
    [][(/\ last'.op = "delete_bucket"
        /\ last'.fault = 0
        /\ last'.bucket \in exists)
       => /\ last'.ret = "True"
          /\ last'.bucket \notin exists']_vars

ParentPrefixes == {P \in Prefixes : Len(P) = 0 \/ EndsWithSlash(P)}

Marker(P, n) == P \o n \o <<SLASH>>

CreatedFolder(P, n) ==
    /\ last'.op = "create_folder_call"
    /\ last'.errors = {}
    /\ last'.key \in {P \o n, Marker(P, n)}

Listed(ex, st, b, P) == list_objects(ex, st, b, P, 0).ret

\* C7: create_folder called with P + n or P + n + "/" stores a
\* zero-byte marker at exactly P + n + "/"; a listing of P then has that key
\* in folders and not in files; a repeated call leaves the key set as it is.
C7_FolderRoundTrip ==
    [][\A P \in ParentPrefixes, n \in Names :
          CreatedFolder(P, n) =>
              /\ store' = [store EXCEPT ![last'.bucket][Marker(P, n)] = EmptyBody]
              /\ Marker(P, n) \in SeqToSet(Listed(exists', store', last'.bucket, P).folders)
              /\ Marker(P, n) \notin SeqToSet(Listed(exists', store', last'.bucket, P).files)
              /\ KeysOf(create_folder(exists', store', last'.bucket, last'.key, 0).st,
                        last'.bucket)
                    = KeysOf(store', last'.bucket)]_vars

BothDone == \A p \in Procs : inflight[p].step = "done"

\* C8: two moves of one source key to keys other than the source, their
\* copy and delete calls interleaved in any order: both complete, neither
\* delete fails (the one that finds the key gone changes nothing), and at the
\* end the source key is absent and the object is at the destination of one
\* of the moves.
C8_RacingMovesSafe ==
    /\ \A p \in Procs : inflight[p].step = "copied" => ENABLED MoveDeleteStep(p, 0)
    /\ (BothDone /\ \A p \in Procs : inflight[p].dst # inflight[p].src) =>
          /\ \A p \in Procs :
                /\ "delete_object" \notin inflight[p].errors
                /\ store[inflight[p].bucket][inflight[p].src] = NoObject
          /\ \E p \in Procs :
                /\ inflight[p].body # NoObject
                /\ store[inflight[p].bucket][inflight[p].dst] = inflight[p].body

\* both copies ran before either delete, to two different keys
C8_Witness ==
    /\ BothDone
    /\ \A p \in Procs : inflight[p].errors = {} /\ inflight[p].dst # inflight[p].src
    /\ inflight[1].dst # inflight[2].dst
    /\ \A p \in Procs : store[inflight[p].bucket][inflight[p].dst] = inflight[p].body

====
